---- MODULE Spec2Model ----
(***************************************************************************)
(* A model of har_to_openapi.py: the schema inferrer (generate_schema),    *)
(* the path normalizer (standardize_path), the endpoint describer          *)
(* (generate_endpoint_description), the assembly loop of                   *)
(* convert_har_to_openapi and merge_openapi_specs.                         *)
(*                                                                         *)
(* Python str values are TLA+ strings (TLC evaluates Len, SubSeq and \o on *)
(* them).  An insertion-ordered Python dict is a sequence of [k, v]        *)
(* records with distinct keys; the two dicts that are only ever looked up  *)
(* by key (paths and the methods under a path) are TLA+ functions.         *)
(***************************************************************************)
EXTENDS Integers, Sequences, FiniteSets, TLC

VARIABLES
    raw_path, norm, renorm,                 \* standardize_path and a second pass over its output
    entries, path_prefix, paths,            \* convert_har_to_openapi: the log consumed, the filter, the document's paths
    part_of, part_paths, merged, merge_pos, \* the same log split over workers and merged
    body, depth, schema, description        \* a body text under construction, its schema and description

pathVars == <<raw_path, norm, renorm>>
convVars == <<entries, path_prefix, paths>>
parVars == <<part_of, part_paths, merged, merge_pos>>
bodyVars == <<body, depth, schema, description>>
vars == <<raw_path, norm, renorm, entries, path_prefix, paths,
          part_of, part_paths, merged, merge_pos, body, depth, schema, description>>

\* Python's None.
None == [t |-> "none"]
\* A variable that holds no value yet.
Unset == [t |-> "unset"]

(***************************************************************************)
(* Strings                                                                 *)
(***************************************************************************)
LowerAlpha == "abcdefghijklmnopqrstuvwxyz"
UpperAlpha == "ABCDEFGHIJKLMNOPQRSTUVWXYZ"
DigitChars == "0123456789"

Char(s, i) == SubSeq(s, i, i)
CharsOf(s) == {Char(s, i) : i \in 1..Len(s)}

Digit == CharsOf(DigitChars)
HexLower == Digit \cup CharsOf("abcdef")
Letter == CharsOf(LowerAlpha) \cup CharsOf(UpperAlpha)
TokenChar == Letter \cup Digit \cup {"_", "-"}

AllIn(s, set) == \A i \in 1..Len(s) : Char(s, i) \in set

\* s.startswith(p)
StartsWith(s, p) == Len(p) <= Len(s) /\ SubSeq(s, 1, Len(p)) = p

\* The least index >= from of a character of s that is in set; 0 when there is none.
RECURSIVE FindFrom(_, _, _)
FindFrom(s, set, from) ==
    IF from > Len(s) THEN 0
    ELSE IF Char(s, from) \in set THEN from
    ELSE FindFrom(s, set, from + 1)

Find(s, c) == FindFrom(s, {c}, 1)

\* needle in s
Contains(s, needle) ==
    \E i \in 1..(Len(s) - Len(needle) + 1) : SubSeq(s, i, i + Len(needle) - 1) = needle

\* s.split(sep) for a one-character sep
RECURSIVE Split(_, _)
Split(s, sep) ==
    LET i == Find(s, sep)
    IN  IF i = 0 THEN <<s>>
        ELSE <<SubSeq(s, 1, i - 1)>> \o Split(SubSeq(s, i + 1, Len(s)), sep)

\* sep.join(parts)
RECURSIVE Join(_, _)
Join(parts, sep) ==
    IF parts = <<>> THEN ""
    ELSE IF Len(parts) = 1 THEN parts[1]
    ELSE parts[1] \o sep \o Join(Tail(parts), sep)

\* s.replace(a, b) for one-character a
Replace(s, a, b) == Join(Split(s, a), b)

MapChar(c, from, to) ==
    LET i == Find(from, c) IN IF i = 0 THEN c ELSE Char(to, i)

RECURSIVE MapStr(_, _, _)
MapStr(s, from, to) ==
    IF s = "" THEN "" ELSE MapChar(Char(s, 1), from, to) \o MapStr(SubSeq(s, 2, Len(s)), from, to)

Lower(s) == MapStr(s, UpperAlpha, LowerAlpha)
Upper(s) == MapStr(s, LowerAlpha, UpperAlpha)

\* str(n) for an integer n >= 0
RECURSIVE IntStr(_)
IntStr(n) ==
    IF n < 10 THEN Char(DigitChars, n + 1)
    ELSE IntStr(n \div 10) \o Char(DigitChars, (n % 10) + 1)

(***************************************************************************)
(* Insertion-ordered dicts                                                 *)
(***************************************************************************)
DictKeys(d) == [i \in 1..Len(d) |-> d[i].k]
DictHas(d, key) == \E i \in 1..Len(d) : d[i].k = key
DictGet(d, key) == d[CHOOSE i \in 1..Len(d) : d[i].k = key].v

\* d[key] = value: a new key goes last, an old key keeps its place
DictSet(d, key, value) ==
    IF DictHas(d, key)
    THEN [i \in 1..Len(d) |-> IF d[i].k = key THEN [k |-> key, v |-> value] ELSE d[i]]
    ELSE Append(d, [k |-> key, v |-> value])

(***************************************************************************)
(* standardize_path                                                        *)
(***************************************************************************)
UuidLen == 36
HashLen == 32
TokenMinLen == 20
UuidDashes == {9, 14, 19, 24}

\* re.match(pattern, segment) for the pattern of each kind
MatchesPattern(param_type, segment) ==
    CASE param_type = "id" -> Len(segment) >= 1 /\ AllIn(segment, Digit)
      [] param_type = "uuid" ->
            /\ Len(segment) = UuidLen
            /\ \A i \in 1..UuidLen :
                  IF i \in UuidDashes THEN Char(segment, i) = "-"
                  ELSE Char(segment, i) \in HexLower
      [] param_type = "hash" -> Len(segment) = HashLen /\ AllIn(segment, HexLower)
      [] param_type = "token" -> Len(segment) >= TokenMinLen /\ AllIn(segment, TokenChar)

TokenFirstPatterns == <<"token", "id", "uuid", "hash">>

\* The candidate patterns, in the order they are tried.
patterns == <<"id", "uuid", "hash", "token">>

\* The index in patterns of the first pattern that matches; 0 when none does.
FirstMatch(segment) ==
    LET hits == {j \in 1..Len(patterns) : MatchesPattern(patterns[j], segment)}
    IN  IF hits = {} THEN 0 ELSE CHOOSE j \in hits : \A h \in hits : j <= h

\* param_name = f"{param_type}_{i}" if i > 0 else param_type
ParamName(param_type, i) ==
    IF i > 0 THEN param_type \o "_" \o IntStr(i) ELSE param_type

\* The loop over enumerate(segments), from 0-based index i - 1 on.
RECURSIVE StandardizeLoop(_, _, _)
StandardizeLoop(segments, param_mapping, i) ==
    IF i > Len(segments) THEN [segments |-> segments, param_mapping |-> param_mapping]
    ELSE LET segment == segments[i]
             j == IF segment = "" THEN 0 ELSE FirstMatch(segment)
         IN  IF j = 0 THEN StandardizeLoop(segments, param_mapping, i + 1)
             ELSE LET param_name == ParamName(patterns[j], i - 1)
                  IN  StandardizeLoop(
                          [segments EXCEPT ![i] = "{" \o param_name \o "}"],
                          DictSet(param_mapping, segment, param_name),
                          i + 1)

\* The loop leaving after the first segment it rewrites.
RECURSIVE FirstOnlyLoop(_, _, _)
FirstOnlyLoop(segments, param_mapping, i) ==
    IF i > Len(segments) THEN [segments |-> segments, param_mapping |-> param_mapping]
    ELSE LET segment == segments[i]
             j == IF segment = "" THEN 0 ELSE FirstMatch(segment)
         IN  IF j = 0 THEN FirstOnlyLoop(segments, param_mapping, i + 1)
             ELSE LET param_name == ParamName(patterns[j], i - 1)
                  IN  [segments |-> [segments EXCEPT ![i] = "{" \o param_name \o "}"],
                       param_mapping |-> DictSet(param_mapping, segment, param_name)]

standardize_path_first_only(path) ==
    LET r == FirstOnlyLoop(Split(path, "/"), <<>>, 1)
    IN  [path |-> Join(r.segments, "/"), param_mapping |-> r.param_mapping]

standardize_path(path) ==
    LET r == StandardizeLoop(Split(path, "/"), <<>>, 1)
    IN  [path |-> Join(r.segments, "/"), param_mapping |-> r.param_mapping]

(***************************************************************************)
(* JSON texts and json.loads                                               *)
(*                                                                         *)
(* A text is what it says: [k |-> "invalid"] for a text that is not JSON,  *)
(* else a literal: null, true, false, a number with its spelling, a        *)
(* string, an array of literals or an object of members.  json.loads turns *)
(* a literal into a Python value, [t |-> type, ...].                       *)
(***************************************************************************)
InvalidText == [k |-> "invalid"]
NullLit == [k |-> "null"]
TrueLit == [k |-> "true"]
FalseLit == [k |-> "false"]
NumLit(lit) == [k |-> "number", lit |-> lit]
StrLit(v) == [k |-> "string", v |-> v]
ArrLit(elems) == [k |-> "array", elems |-> elems]
ObjLit(members) == [k |-> "object", members |-> members]
Member(key, value) == [k |-> key, v |-> value]
\* The text '{}' the code falls back on.
EmptyObjectText == ObjLit(<<>>)

\* int(digits)
RECURSIVE DigitsVal(_)
DigitsVal(digits) ==
    IF digits = "" THEN 0
    ELSE DigitsVal(SubSeq(digits, 1, Len(digits) - 1)) * 10
         + (Find(DigitChars, Char(digits, Len(digits))) - 1)

\* m * 10^e with no trailing zero left in m
RECURSIVE Normalize(_, _)
Normalize(m, e) ==
    IF m = 0 THEN [m |-> 0, e |-> 0]
    ELSE IF m % 10 = 0 THEN Normalize(m \div 10, e + 1)
    ELSE [m |-> m, e |-> e]

\* The json scanner on a number: int(integer) when the literal has neither a
\* fraction nor an exponent, else float(integer + frac + exp).
json_number(lit) ==
    LET neg == StartsWith(lit, "-")
        u == IF neg THEN SubSeq(lit, 2, Len(lit)) ELSE lit
        sign == IF neg THEN -1 ELSE 1
        ei == FindFrom(u, {"e", "E"}, 1)
        mant == IF ei = 0 THEN u ELSE SubSeq(u, 1, ei - 1)
        exp == IF ei = 0 THEN "" ELSE SubSeq(u, ei + 1, Len(u))
        di == Find(mant, ".")
        integer == IF di = 0 THEN mant ELSE SubSeq(mant, 1, di - 1)
        frac == IF di = 0 THEN "" ELSE SubSeq(mant, di + 1, Len(mant))
        expval == IF exp = "" THEN 0
                  ELSE IF StartsWith(exp, "-") THEN 0 - DigitsVal(SubSeq(exp, 2, Len(exp)))
                  ELSE IF StartsWith(exp, "+") THEN DigitsVal(SubSeq(exp, 2, Len(exp)))
                  ELSE DigitsVal(exp)
    IN  IF di = 0 /\ ei = 0
        THEN [t |-> "int", v |-> sign * DigitsVal(integer)]
        ELSE LET n == Normalize(sign * DigitsVal(integer \o frac), expval - Len(frac))
             IN  [t |-> "float", m |-> n.m, e |-> n.e]

RECURSIVE json_decode(_)
RECURSIVE DecodeMembers(_, _, _)
\* An object's members into a dict: a repeated key keeps its place and takes the
\* later value.
DecodeMembers(members, i, acc) ==
    IF i > Len(members) THEN acc
    ELSE DecodeMembers(members, i + 1, DictSet(acc, members[i].k, json_decode(members[i].v)))

json_decode(lit) ==
    CASE lit.k = "null" -> None
      [] lit.k = "true" -> [t |-> "bool", v |-> TRUE]
      [] lit.k = "false" -> [t |-> "bool", v |-> FALSE]
      [] lit.k = "number" -> json_number(lit.lit)
      [] lit.k = "string" -> [t |-> "str", v |-> lit.v]
      [] lit.k = "array" ->
            [t |-> "list", items |-> [i \in 1..Len(lit.elems) |-> json_decode(lit.elems[i])]]
      [] lit.k = "object" -> [t |-> "dict", items |-> DecodeMembers(lit.members, 1, <<>>)]

\* json.loads(text): [ok |-> FALSE] stands for the exception it raises.
json_loads(text) ==
    IF text.k = "invalid" THEN [ok |-> FALSE]
    ELSE [ok |-> TRUE, value |-> json_decode(text)]

(***************************************************************************)
(* generate_schema and extract_schema_from_json                            *)
(***************************************************************************)
\* isinstance(data, cls): bool is a subclass of int.
IsInstance(data, cls) == data.t = cls \/ (cls = "int" /\ data.t = "bool")

ScalarTypeIntFirst(data) ==
    IF IsInstance(data, "int") THEN "integer"
    ELSE IF IsInstance(data, "bool") THEN "boolean"
    ELSE IF IsInstance(data, "float") THEN "number"
    ELSE IF IsInstance(data, "str") THEN "string"
    ELSE "null"

\* The elif chain over the values that are neither dict nor list.
ScalarType(data) ==
    IF IsInstance(data, "bool") THEN "boolean"
    ELSE IF IsInstance(data, "int") THEN "integer"
    ELSE IF IsInstance(data, "float") THEN "number"
    ELSE IF IsInstance(data, "str") THEN "string"
    ELSE "null"

RequiredKeysAll(items) == DictKeys(items)

\* required: the keys whose value is not None, in the dict's order.
RequiredKeys(items) == DictKeys(SelectSeq(items, LAMBDA it : it.v # None))

RECURSIVE generate_schema(_)
generate_schema(data) ==
    IF IsInstance(data, "dict")
    THEN LET properties == [i \in 1..Len(data.items) |->
                              [k |-> data.items[i].k, v |-> generate_schema(data.items[i].v)]]
             required == RequiredKeys(data.items)
         IN  [type |-> "object",
              properties |-> properties,
              required |-> IF required # <<>> THEN required ELSE None]
    ELSE IF IsInstance(data, "list")
    THEN IF data.items # <<>>
         THEN [type |-> "array", items |-> generate_schema(data.items[1])]
         ELSE [type |-> "array"]
    ELSE [type |-> ScalarType(data)]

\* The empty dict.
EmptyDict == <<>>

extract_schema_from_json(json_str) ==
    LET data == json_loads(json_str)
    IN  IF data.ok THEN generate_schema(data.value) ELSE EmptyDict

(***************************************************************************)
(* generate_endpoint_description                                           *)
(***************************************************************************)
DefaultStatus == 200

\* d.get(key, default) on a decoded HAR object
Get(d, key, default) == IF key \in DOMAIN d THEN d[key] ELSE default

MethodDesc(method) ==
    CASE method = "get" -> "Retrieve"
      [] method = "post" -> "Create"
      [] method = "put" -> "Update"
      [] method = "patch" -> "Partially update"
      [] method = "delete" -> "Delete"
      [] OTHER -> "Process"

\* field_desc, from the request body
RequestFieldDesc(request_body) ==
    LET request_data == json_loads(request_body)
    IN  IF ~request_data.ok THEN ""
        ELSE IF IsInstance(request_data.value, "dict")
        THEN LET fields == DictKeys(request_data.value.items)
             IN  IF fields # <<>> THEN " with fields: " \o Join(fields, ", ") ELSE ""
        ELSE ""

ResponseDescNonEmptyList(response_body, resource) ==
    LET response_data == json_loads(response_body)
    IN  IF ~response_data.ok THEN ""
        ELSE IF IsInstance(response_data.value, "dict")
        THEN LET response_fields == DictKeys(response_data.value.items)
             IN  IF response_fields # <<>>
                 THEN " Returns data with fields: " \o Join(response_fields, ", ")
                 ELSE ""
        ELSE IF IsInstance(response_data.value, "list") /\ response_data.value.items # <<>>
        THEN " Returns a list of " \o resource \o "s"
        ELSE ""

\* response_desc, from the response body
ResponseDesc(response_body, resource) ==
    LET response_data == json_loads(response_body)
    IN  IF ~response_data.ok THEN ""
        ELSE IF IsInstance(response_data.value, "dict")
        THEN LET response_fields == DictKeys(response_data.value.items)
             IN  IF response_fields # <<>>
                 THEN " Returns data with fields: " \o Join(response_fields, ", ")
                 ELSE ""
        ELSE IF IsInstance(response_data.value, "list")
        THEN " Returns a list of " \o resource \o "s"
        ELSE ""

StatusDesc(status) ==
    IF status >= 200 /\ status < 300 THEN " (Success: " \o IntStr(status) \o ")"
    ELSE IF status >= 400 THEN " (Error: " \o IntStr(status) \o ")"
    ELSE ""

generate_endpoint_description(path, method, request, response) ==
    LET path_parts == SelectSeq(Split(path, "/"), LAMBDA p : p # "")
        resource == IF path_parts # <<>> THEN path_parts[Len(path_parts)] ELSE "resource"
        status == Get(response, "status", DefaultStatus)
        method_desc == MethodDesc(Lower(method))
        request_body == Get(Get(request, "postData", EmptyDict), "text", EmptyObjectText)
        field_desc == RequestFieldDesc(request_body)
        response_body == Get(Get(response, "content", EmptyDict), "text", EmptyObjectText)
        response_desc == ResponseDesc(response_body, resource)
    IN  method_desc \o " " \o resource \o field_desc \o response_desc \o StatusDesc(status)

(***************************************************************************)
(* urlparse and parse_qs, as far as the converter uses them                *)
(***************************************************************************)
SchemeChar == Letter \cup Digit \cup {"+", "-", "."}

\* urlparse(url): the scheme (lower-cased), the netloc, the path and the query.
urlparse(url) ==
    LET i == Find(url, ":")
        has_scheme == i > 1 /\ Char(url, 1) \in Letter /\ AllIn(SubSeq(url, 1, i - 1), SchemeChar)
        scheme == IF has_scheme THEN Lower(SubSeq(url, 1, i - 1)) ELSE ""
        rest1 == IF has_scheme THEN SubSeq(url, i + 1, Len(url)) ELSE url
        has_netloc == StartsWith(rest1, "//")
        d == FindFrom(rest1, {"/", "?", "#"}, 3)
        delim == IF d = 0 THEN Len(rest1) + 1 ELSE d
        netloc == IF has_netloc THEN SubSeq(rest1, 3, delim - 1) ELSE ""
        rest2 == IF has_netloc THEN SubSeq(rest1, delim, Len(rest1)) ELSE rest1
        h == Find(rest2, "#")
        rest3 == IF h = 0 THEN rest2 ELSE SubSeq(rest2, 1, h - 1)
        q == Find(rest3, "?")
    IN  [scheme |-> scheme,
         netloc |-> netloc,
         path |-> IF q = 0 THEN rest3 ELSE SubSeq(rest3, 1, q - 1),
         query |-> IF q = 0 THEN "" ELSE SubSeq(rest3, q + 1, Len(rest3))]

\* parse_qs over the "&"-separated fields from the i-th on: a field with no "=" or
\* with a blank value is dropped, a repeated name collects its values.
RECURSIVE ParseQsLoop(_, _, _)
ParseQsLoop(fields, i, acc) ==
    IF i > Len(fields) THEN acc
    ELSE LET name_value == fields[i]
             eq == Find(name_value, "=")
             name == SubSeq(name_value, 1, eq - 1)
             value == SubSeq(name_value, eq + 1, Len(name_value))
         IN  IF eq = 0 \/ value = "" THEN ParseQsLoop(fields, i + 1, acc)
             ELSE ParseQsLoop(fields, i + 1,
                      DictSet(acc, name,
                              IF DictHas(acc, name) THEN Append(DictGet(acc, name), value)
                              ELSE <<value>>))

parse_qs(qs) == ParseQsLoop(Split(qs, "&"), 1, <<>>)

(***************************************************************************)
(* convert_har_to_openapi                                                  *)
(***************************************************************************)
Str(v) == [t |-> "str", v |-> v]
\* The truth value of an optional string.
TruthyStr(x) == x # None /\ x.v # ""

\* if not parsed_url.scheme.startswith('http'): continue
SchemeSkipped(parsed_url) == ~StartsWith(parsed_url.scheme, "http")
\* if path_prefix and not original_path.startswith(path_prefix): continue
PrefixSkipped(prefix, original_path) ==
    TruthyStr(prefix) /\ ~StartsWith(original_path, prefix.v)

QueryParameters(query_params) ==
    [i \in 1..Len(query_params) |->
        [name |-> query_params[i].k,
         in |-> "query",
         required |-> TRUE,
         description |-> "Query parameter: " \o query_params[i].k,
         schema |-> [type |-> "string"]]]

PathParameters(param_mapping) ==
    [i \in 1..Len(param_mapping) |->
        [name |-> param_mapping[i].v,
         in |-> "path",
         required |-> TRUE,
         description |-> "Path parameter: " \o param_mapping[i].v
                         \o " (e.g., " \o param_mapping[i].k \o ")",
         schema |-> [type |-> "string"]]]

\* The operation the loop body builds for an entry it does not skip.
BuildOperation(request, response, parsed_url, path, param_mapping, method) ==
    LET endpoint_description ==
            generate_endpoint_description(path, method, request, response)
        operation ==
            [summary |-> Upper(method) \o " " \o path,
             description |-> endpoint_description,
             operationId |-> method \o "_" \o Replace(path, "/", "_"),
             responses |->
                 (IntStr(Get(response, "status", DefaultStatus)) :>
                     [description |-> Get(response, "statusText", ""),
                      content |-> ("application/json" :>
                          [schema |-> extract_schema_from_json(
                               Get(Get(response, "content", EmptyDict), "text",
                                   EmptyObjectText))])])]
        post_data == Get(request, "postData", EmptyDict)
        with_body ==
            IF post_data # EmptyDict
            THEN operation @@
                 ("requestBody" :>
                     [description |-> "Request body containing the data to be processed",
                      content |-> ("application/json" :>
                          [schema |-> extract_schema_from_json(
                               Get(post_data, "text", EmptyObjectText))])])
            ELSE operation
        query_params == parse_qs(parsed_url.query)
        parameters ==
            (IF query_params # <<>> THEN QueryParameters(query_params) ELSE <<>>)
                \o (IF param_mapping # <<>> THEN PathParameters(param_mapping) ELSE <<>>)
    IN  IF query_params # <<>> \/ param_mapping # <<>>
        THEN with_body @@ ("parameters" :> parameters)
        ELSE with_body

InsertOperationKeepFirst(doc_paths, path, method, operation) ==
    LET p1 == IF path \in DOMAIN doc_paths THEN doc_paths ELSE (path :> EmptyDict) @@ doc_paths
    IN  [p1 EXCEPT ![path] = p1[path] @@ (method :> operation)]

\* if path not in paths: paths[path] = {} ... paths[path][method] = operation
InsertOperation(doc_paths, path, method, operation) ==
    LET p1 == IF path \in DOMAIN doc_paths THEN doc_paths ELSE (path :> EmptyDict) @@ doc_paths
    IN  [p1 EXCEPT ![path] = (method :> operation) @@ p1[path]]

\* One iteration of the loop over the log's entries.
ConvertStep(doc_paths, entry, prefix) ==
    LET request == Get(entry, "request", EmptyDict)
        response == Get(entry, "response", EmptyDict)
        parsed_url == urlparse(Get(request, "url", ""))
        original_path == parsed_url.path
        std == standardize_path(original_path)
        method == Lower(Get(request, "method", "GET"))
    IN  IF SchemeSkipped(parsed_url) THEN doc_paths
        ELSE IF PrefixSkipped(prefix, original_path) THEN doc_paths
        ELSE InsertOperation(doc_paths, std.path, method,
                 BuildOperation(request, response, parsed_url, std.path,
                                std.param_mapping, method))

RECURSIVE ConvertLoop(_, _, _, _)
ConvertLoop(doc_paths, log, i, prefix) ==
    IF i > Len(log) THEN doc_paths
    ELSE ConvertLoop(ConvertStep(doc_paths, log[i], prefix), log, i + 1, prefix)

\* The document around the paths.
OpenapiSpec(prefix, doc_paths) ==
    [openapi |-> "3.0.0",
     info |-> [title |-> "API Specification",
               version |-> "1.0.0",
               description |-> "Generated from HAR file"
                   \o (IF TruthyStr(prefix)
                       THEN " (filtered by path prefix: " \o prefix.v \o ")" ELSE "")],
     paths |-> doc_paths,
     components |-> [schemas |-> EmptyDict,
                     securitySchemes |->
                         [cookieAuth |-> [type |-> "apiKey", in |-> "cookie",
                                          name |-> "session"]]],
     security |-> <<[cookieAuth |-> <<>>]>>]

convert_har_to_openapi(log, prefix) == OpenapiSpec(prefix, ConvertLoop(EmptyDict, log, 1, prefix))

(***************************************************************************)
(* merge_openapi_specs                                                     *)
(***************************************************************************)
\* d.update(e): e's keys over d's
Update(d, e) == e @@ d

MergePathsKeepExisting(merged_paths, new_paths) ==
    [path \in DOMAIN merged_paths \cup DOMAIN new_paths |->
        IF path \notin DOMAIN new_paths THEN merged_paths[path]
        ELSE IF path \notin DOMAIN merged_paths THEN new_paths[path]
        ELSE Update(new_paths[path], merged_paths[path])]

\* for path, methods in new_spec['paths'].items(): merged['paths'][path].update(methods)
MergePaths(merged_paths, new_paths) ==
    [path \in DOMAIN merged_paths \cup DOMAIN new_paths |->
        IF path \notin DOMAIN new_paths THEN merged_paths[path]
        ELSE IF path \notin DOMAIN merged_paths THEN Update(EmptyDict, new_paths[path])
        ELSE Update(merged_paths[path], new_paths[path])]

merge_openapi_specs(existing_spec, new_spec) ==
    LET m1 == IF "paths" \in DOMAIN existing_spec THEN existing_spec
              ELSE ("paths" :> EmptyDict) @@ existing_spec
        m2 == [m1 EXCEPT !["paths"] = MergePaths(@, Get(new_spec, "paths", EmptyDict))]
        m3 == IF "components" \in DOMAIN m2 THEN m2
              ELSE ("components" :> [schemas |-> EmptyDict, securitySchemes |-> EmptyDict]) @@ m2
        new_components == Get(new_spec, "components", EmptyDict)
        m4 == IF "schemas" \in DOMAIN new_components
              THEN [m3 EXCEPT !["components"]["schemas"] = Update(@, new_components["schemas"])]
              ELSE m3
    IN  IF "securitySchemes" \in DOMAIN new_components
        THEN [m4 EXCEPT !["components"]["securitySchemes"] =
                            Update(@, new_components["securitySchemes"])]
        ELSE m4

(***************************************************************************)
(* The path normalizer on its own: a raw path is put together segment by   *)
(* segment, normalized, and the template normalized once more.             *)
(***************************************************************************)
MaxSegs == 3

\* Segments a raw path is built from: literals, one or more of each kind, segments
\* that match several patterns, and near misses of each pattern.
SegmentPool ==
    { "", "api", "42", "v1.2", "{id_2}",
      "12345678901234567890123456789012",
      "3f29c4a1b2e3445e9aa1d2c3b4e5f6a7",
      "3F29C4A1B2E3445E9AA1D2C3B4E5F6A7",
      "123e4567-e89b-12d3-a456-426614174000",
      "AbCdEfGhIjKlMnOpQrSt",
      "AbCdEfGhIjKlMnOpQrS" }

PathIdle == raw_path = "" /\ norm = Unset /\ renorm = Unset
ConvIdle == entries = <<>> /\ path_prefix = None /\ paths = <<>>
ParIdle == part_of = <<>> /\ part_paths = <<>> /\ merged = Unset /\ merge_pos = 0
BodyIdle == body = Unset /\ depth = 0 /\ schema = Unset /\ description = Unset

PathInit ==
    /\ raw_path \in SegmentPool
    /\ norm = Unset
    /\ renorm = Unset
    /\ ConvIdle /\ ParIdle /\ BodyIdle

\* The caller's path grows by one more "/"-separated segment.
ExtendPath(seg) ==
    /\ norm = Unset
    /\ Len(Split(raw_path, "/")) < MaxSegs
    /\ raw_path' = raw_path \o "/" \o seg
    /\ UNCHANGED <<norm, renorm, convVars, parVars, bodyVars>>

\* standardize_path(raw_path)
Standardize ==
    /\ norm = Unset
    /\ norm' = standardize_path(raw_path)
    /\ UNCHANGED <<raw_path, renorm, convVars, parVars, bodyVars>>

\* standardize_path on the template the first call returned
Restandardize ==
    /\ norm # Unset
    /\ renorm = Unset
    /\ renorm' = standardize_path(norm.path)
    /\ UNCHANGED <<raw_path, norm, convVars, parVars, bodyVars>>

PathNext ==
    \/ \E seg \in SegmentPool : ExtendPath(seg)
    \/ Standardize
    \/ Restandardize

SpecPath == PathInit /\ [][PathNext]_vars

(***************************************************************************)
(* Claims about standardize_path                                           *)
(***************************************************************************)
\* The kind the specification gives a segment: the first of id (all digits), uuid
\* (8-4-4-4-12 lowercase hex), hash (32 lowercase hex), token (20 or more of
\* [A-Za-z0-9_-]) that the segment is; "literal" when it is none of them.
IsAllDigits(seg) == seg # "" /\ \A i \in 1..Len(seg) : Char(seg, i) \in Digit
IsHexGroup(seg, n) == Len(seg) = n /\ \A i \in 1..Len(seg) : Char(seg, i) \in HexLower
IsUuidShape(seg) ==
    LET g == Split(seg, "-")
    IN  /\ Len(g) = 5
        /\ IsHexGroup(g[1], 8) /\ IsHexGroup(g[2], 4) /\ IsHexGroup(g[3], 4)
        /\ IsHexGroup(g[4], 4) /\ IsHexGroup(g[5], 12)
IsHash32(seg) == IsHexGroup(seg, 32)
IsLongToken(seg) == Len(seg) >= 20 /\ \A i \in 1..Len(seg) : Char(seg, i) \in TokenChar

SpecKind(seg) ==
    IF IsAllDigits(seg) THEN "id"
    ELSE IF IsUuidShape(seg) THEN "uuid"
    ELSE IF IsHash32(seg) THEN "hash"
    ELSE IF IsLongToken(seg) THEN "token"
    ELSE "literal"

\* The split indices (1-based here) of the segments the specification parameterizes.
ParamIdx(segs) == {i \in 1..Len(segs) : segs[i] # "" /\ SpecKind(segs[i]) # "literal"}
FirstIdx(idx) == CHOOSE i \in idx : \A h \in idx : i <= h

\* C2: the first parameterized segment of a path is named exactly its kind, with no
\* index suffix, and every later one is named <kind>_<i>, i its 0-based split index.
C2_FirstPlaceholderIsBareKind ==
    norm # Unset =>
        LET raw == Split(raw_path, "/")
            out == Split(norm.path, "/")
            idx == ParamIdx(raw)
        IN  /\ Len(out) = Len(raw)
            /\ \A i \in idx :
                  out[i] = IF i = FirstIdx(idx)
                           THEN "{" \o SpecKind(raw[i]) \o "}"
                           ELSE "{" \o SpecKind(raw[i]) \o "_" \o IntStr(i - 1) \o "}"

\* C3: every non-empty segment is classified by the first matching pattern in the
\* order id, uuid, hash, token; a segment matching none stays as it is, and an empty
\* segment is never rewritten.
C3_FirstMatchingPatternWins ==
    norm # Unset =>
        LET raw == Split(raw_path, "/")
            out == Split(norm.path, "/")
            kind == [i \in 1..Len(raw) |-> SpecKind(raw[i])]
        IN  /\ Len(out) = Len(raw)
            /\ \A i \in 1..Len(raw) :
                  IF raw[i] = "" THEN out[i] = ""
                  ELSE IF kind[i] = "literal" THEN out[i] = raw[i]
                  ELSE out[i] \in { "{" \o kind[i] \o "}",
                                    "{" \o kind[i] \o "_" \o IntStr(i - 1) \o "}" }
            /\ \A n \in 1..Len(norm.param_mapping) :
                  \E i \in 1..Len(raw) :
                      /\ raw[i] = norm.param_mapping[n].k
                      /\ kind[i] # "literal"
                      /\ StartsWith(norm.param_mapping[n].v, kind[i])

\* A normalized path with a segment of digits that is also 32 long, a 32-hex segment
\* that is also a token, and an empty segment.
C3_Witness ==
    /\ norm # Unset
    /\ LET raw == Split(raw_path, "/")
           out == Split(norm.path, "/")
       IN  /\ \E i, j \in 1..Len(raw) :
                 /\ IsAllDigits(raw[i]) /\ Len(raw[i]) = 32
                 /\ StartsWith(out[i], "{id")
                 /\ IsHash32(raw[j]) /\ IsLongToken(raw[j])
                 /\ StartsWith(out[j], "{hash")
           /\ \E k \in 2..Len(raw) : raw[k] = ""

\* C4: normalizing the template a first call returned gives the same template and an
\* empty parameter mapping.
C4_Idempotent ==
    renorm # Unset =>
        /\ renorm.path = norm.path
        /\ renorm.param_mapping = <<>>

\* A second pass over a template that holds two placeholders and a literal.
C4_Witness ==
    /\ renorm # Unset
    /\ Len(norm.param_mapping) >= 2
    /\ LET raw == Split(raw_path, "/")
           out == Split(norm.path, "/")
       IN  \E i \in 1..Len(raw) : raw[i] # "" /\ out[i] = raw[i]

(***************************************************************************)
(* The schema inferrer and the describer on their own: a body text is      *)
(* built by nesting a literal in arrays and objects, then either its       *)
(* schema is inferred or an exchange carrying it is described.             *)
(***************************************************************************)
MaxDepth == 2

NumberSpellings == {"1", "0", "-3", "1.0", "1e2", "15e-1", "1.5"}

BaseTexts ==
    {InvalidText, NullLit, TrueLit, FalseLit, StrLit("x"), ArrLit(<<>>), ObjLit(<<>>)}
        \cup {NumLit(n) : n \in NumberSpellings}

\* What may stand beside the text being nested.
SiblingLits == {NullLit, NumLit("1")}
ObjectKeys == {"a", "b"}
SiblingKey == "b"

\* The (path, method, request, response without its body) a body is described under.
DescribeInputs ==
    { [path |-> "/items", method |-> "get", request |-> EmptyDict,
       response |-> [status |-> 200, statusText |-> "OK"]],
      [path |-> "/api/users/{id_3}", method |-> "POST",
       request |-> [postData |-> [text |-> ObjLit(<<Member("name", StrLit("x"))>>)]],
       response |-> [status |-> 404, statusText |-> "Not Found"]],
      [path |-> "", method |-> "OPTIONS", request |-> [postData |-> [text |-> InvalidText]],
       response |-> [statusText |-> ""]],
      [path |-> "/items/", method |-> "delete", request |-> EmptyDict,
       response |-> [status |-> 301, statusText |-> "Moved"]] }

BodyInit ==
    /\ body \in BaseTexts
    /\ depth = 0
    /\ schema = Unset
    /\ description = Unset
    /\ PathIdle /\ ConvIdle /\ ParIdle

BodyOpen == schema = Unset /\ description = Unset /\ body # InvalidText

\* The text becomes the only element of an array.
WrapInArray ==
    /\ BodyOpen /\ depth < MaxDepth
    /\ body' = ArrLit(<<body>>)
    /\ depth' = depth + 1
    /\ UNCHANGED <<schema, description, pathVars, convVars, parVars>>

\* The text becomes one of two elements of an array.
WrapInArrayWith(sib, first) ==
    /\ BodyOpen /\ depth < MaxDepth
    /\ body' = ArrLit(IF first THEN <<body, sib>> ELSE <<sib, body>>)
    /\ depth' = depth + 1
    /\ UNCHANGED <<schema, description, pathVars, convVars, parVars>>

\* The text becomes the only member of an object.
WrapInObject(key) ==
    /\ BodyOpen /\ depth < MaxDepth
    /\ body' = ObjLit(<<Member(key, body)>>)
    /\ depth' = depth + 1
    /\ UNCHANGED <<schema, description, pathVars, convVars, parVars>>

\* The text becomes one of two members of an object (of the same key when key is
\* the sibling's).
WrapInObjectWith(key, sib, first) ==
    /\ BodyOpen /\ depth < MaxDepth
    /\ body' = ObjLit(IF first THEN <<Member(key, body), Member(SiblingKey, sib)>>
                      ELSE <<Member(SiblingKey, sib), Member(key, body)>>)
    /\ depth' = depth + 1
    /\ UNCHANGED <<schema, description, pathVars, convVars, parVars>>

\* extract_schema_from_json(body)
InferSchema ==
    /\ schema = Unset /\ description = Unset
    /\ schema' = extract_schema_from_json(body)
    /\ UNCHANGED <<body, depth, description, pathVars, convVars, parVars>>

\* generate_endpoint_description for an exchange whose response text is body
Describe(in) ==
    /\ schema = Unset /\ description = Unset
    /\ description' =
          [in |-> in,
           text |-> generate_endpoint_description(in.path, in.method, in.request,
                        in.response @@ [content |-> [mimeType |-> "application/json",
                                                     text |-> body]])]
    /\ UNCHANGED <<body, depth, schema, pathVars, convVars, parVars>>

BodyNext ==
    \/ WrapInArray
    \/ \E sib \in SiblingLits, first \in BOOLEAN : WrapInArrayWith(sib, first)
    \/ \E key \in ObjectKeys : WrapInObject(key)
    \/ \E key \in ObjectKeys, sib \in SiblingLits, first \in BOOLEAN :
          WrapInObjectWith(key, sib, first)
    \/ InferSchema
    \/ \E in \in DescribeInputs : Describe(in)

SpecBody == BodyInit /\ [][BodyNext]_vars

(***************************************************************************)
(* Claims about generate_schema                                            *)
(***************************************************************************)
\* The keys of an object literal, each once, in the order they first occur.
RECURSIVE MemberKeys(_)
MemberKeys(members) ==
    IF members = <<>> THEN <<>>
    ELSE LET init == MemberKeys(SubSeq(members, 1, Len(members) - 1))
             key == members[Len(members)].k
         IN  IF \E i \in 1..Len(init) : init[i] = key THEN init ELSE Append(init, key)

\* The literal an object literal gives a key: that of the last member with the key.
MemberValue(members, key) ==
    members[CHOOSE i \in 1..Len(members) :
                /\ members[i].k = key
                /\ \A j \in (i + 1)..Len(members) : members[j].k # key].v

\* Equality of two Python values that may be of different types (a list and None),
\* decided on their printed form.
SameValue(a, b) == ToString(a) = ToString(b)

\* C6: an object's schema has exactly the object's keys as properties, each with the
\* schema inferred from its value, and requires exactly the keys whose value is not
\* null, in key order; with no such key, required is None and not an empty list.
C6_ObjectSchema ==
    (schema # Unset /\ body.k = "object") =>
        LET keys == MemberKeys(body.members)
            nonnull == SelectSeq(keys, LAMBDA key : MemberValue(body.members, key) # NullLit)
        IN  /\ schema.type = "object"
            /\ DOMAIN schema = {"type", "properties", "required"}
            /\ DictKeys(schema.properties) = keys
            /\ \A i \in 1..Len(keys) :
                  LET value == MemberValue(body.members, keys[i])
                  IN  /\ schema.properties[i].v = extract_schema_from_json(value)
                      /\ value = NullLit => schema.properties[i].v = [type |-> "null"]
            /\ SameValue(schema.required, IF nonnull = <<>> THEN None ELSE nonnull)

\* The schema of an object with a null member, and a member that is an object itself.
C6_Witness ==
    /\ schema # Unset /\ body.k = "object"
    /\ \E i, j \in 1..Len(body.members) :
          /\ body.members[i].k # body.members[j].k
          /\ body.members[i].v = NullLit
          /\ body.members[j].v.k = "object"
          /\ body.members[j].v.members # <<>>
    /\ Len(schema.required) = 1

\* Whether a number's spelling has a fraction or an exponent.
HasFractionOrExponent(lit) == \E i \in 1..Len(lit) : Char(lit, i) \in {".", "e", "E"}
\* Whether the number a literal spells is whole: its decimal exponent is not negative
\* once the trailing zeros of its digits are dropped.
WholeValued(lit) ==
    LET n == json_number(lit) IN n.t = "int" \/ n.e >= 0

\* C7 as stated: true and false are boolean, every whole-valued numeric literal
\* (1, 1.0, 1e2) is integer and every other numeric literal is number.
C7_WholeValuedIsInteger ==
    schema # Unset =>
        /\ body.k \in {"true", "false"} => schema = [type |-> "boolean"]
        /\ body.k = "number" =>
              schema = [type |-> IF WholeValued(body.lit) THEN "integer" ELSE "number"]

\* C7 as amended: true and false are boolean, a numeric literal spelled with neither
\* a fraction nor an exponent is integer, and every other numeric literal, whole-valued
\* or not, is number.
C7_IntegerBySpelling ==
    schema # Unset =>
        /\ body.k \in {"true", "false"} => schema = [type |-> "boolean"]
        /\ body.k = "number" =>
              schema = [type |-> IF HasFractionOrExponent(body.lit) THEN "number"
                                 ELSE "integer"]

\* The schema of a whole-valued literal spelled with an exponent.
C7_Witness ==
    /\ schema # Unset
    /\ body.k = "number" /\ HasFractionOrExponent(body.lit) /\ WholeValued(body.lit)
    /\ schema.type = "number"

(***************************************************************************)
(* Claims about generate_endpoint_description                              *)
(***************************************************************************)
FieldsClause == " Returns data with fields: "
ListClause == " Returns a list of "

\* C8 as stated: the fields clause is appended only for a response that is an object
\* with a key, the list clause only for one that is a non-empty array, and no response
\* clause in every other case.
C8_ListClauseOnlyNonEmpty ==
    description # Unset =>
        /\ Contains(description.text, FieldsClause)
              <=> (body.k = "object" /\ body.members # <<>>)
        /\ Contains(description.text, ListClause)
              <=> (body.k = "array" /\ body.elems # <<>>)

\* C8 as amended: the fields clause is appended only for a response that is an object
\* with a key, the list clause for every response that is an array, empty or not, and
\* no response clause in every other case.
C8_ListClauseAnyArray ==
    description # Unset =>
        /\ Contains(description.text, FieldsClause)
              <=> (body.k = "object" /\ body.members # <<>>)
        /\ Contains(description.text, ListClause) <=> body.k = "array"

\* The description of an exchange whose response is the empty array.
C8_Witness ==
    /\ description # Unset
    /\ body = ArrLit(<<>>)
    /\ Contains(description.text, ListClause \o "items" \o "s")

(***************************************************************************)
(* The assembler: the log is consumed one entry at a time.                 *)
(***************************************************************************)
MaxEntries == 3

JsonContent(text) == [mimeType |-> "application/json", text |-> text]

UserObject == ObjLit(<<Member("id", NumLit("42")), Member("name", StrLit("x"))>>)

\* Decoded HAR entries: the same endpoint under several ids and methods, a path with
\* one literal in two segments, schemes that are and are not http(s), paths under and
\* outside the prefix, and entries with fields missing.
EntryPool ==
    { [request |-> [method |-> "GET", url |-> "https://h/api/users/42?active=true"],
       response |-> [status |-> 200, statusText |-> "OK", content |-> JsonContent(UserObject)]],
      [request |-> [url |-> "https://h/api/users/7"],
       response |-> [status |-> 404, statusText |-> "Not Found",
                     content |-> JsonContent(InvalidText)]],
      [request |-> [method |-> "POST", url |-> "https://h/api/users/7",
                    postData |-> [text |-> ObjLit(<<Member("name", StrLit("x"))>>)]],
       response |-> [status |-> 201, statusText |-> "Created"]],
      [request |-> [method |-> "GET", url |-> "http://h/api/1/1"],
       response |-> [status |-> 200, statusText |-> "OK", content |-> JsonContent(ArrLit(<<>>))]],
      [request |-> [method |-> "GET", url |-> "http://h/users/7/orders/7"],
       response |-> [status |-> 200, statusText |-> "OK",
                     content |-> JsonContent(ArrLit(<<NumLit("1")>>))]],
      [request |-> [method |-> "GET", url |-> "httpx://h/api/x"],
       response |-> [status |-> 200, statusText |-> "OK"]],
      [request |-> [method |-> "GET", url |-> "ftp://h/api/users/42"],
       response |-> [status |-> 200, statusText |-> "OK"]],
      [request |-> [method |-> "GET", url |-> "https://h/other"],
       response |-> [status |-> 200, statusText |-> "OK"]],
      [request |-> [method |-> "get", url |-> "https://h/api/users/42"]],
      EmptyDict,
      [request |-> [method |-> "GET", url |-> "HTTPS://h/api/users/9?a=&b=1&b=2&c"],
       response |-> [status |-> 301, statusText |-> "Moved"]] }

Prefixes == {None, Str("/api")}

Init ==
    /\ entries = <<>>
    /\ path_prefix \in Prefixes
    /\ paths = EmptyDict
    /\ PathIdle /\ ParIdle /\ BodyIdle

\* One iteration of the loop of convert_har_to_openapi, on the log's next entry.
ProcessEntry(entry) ==
    /\ Len(entries) < MaxEntries
    /\ entries' = Append(entries, entry)
    /\ paths' = ConvertStep(paths, entry, path_prefix)
    /\ UNCHANGED <<path_prefix, pathVars, parVars, bodyVars>>

Next == \E entry \in EntryPool : ProcessEntry(entry)

Spec == Init /\ [][Next]_vars

(***************************************************************************)
(* The log split over workers, each converting its share, and the          *)
(* documents folded with merge_openapi_specs.                              *)
(***************************************************************************)
MaxParEntries == 3
NumParts == 2

ParEntryPool ==
    { [request |-> [method |-> "GET", url |-> "https://h/api/users/42?active=true"],
       response |-> [status |-> 200, statusText |-> "OK", content |-> JsonContent(UserObject)]],
      [request |-> [url |-> "https://h/api/users/7"],
       response |-> [status |-> 404, statusText |-> "Not Found",
                     content |-> JsonContent(InvalidText)]],
      [request |-> [method |-> "POST", url |-> "https://h/api/users/7",
                    postData |-> [text |-> ObjLit(<<Member("name", StrLit("x"))>>)]],
       response |-> [status |-> 201, statusText |-> "Created"]],
      [request |-> [method |-> "GET", url |-> "https://h/other"],
       response |-> [status |-> 200, statusText |-> "OK"]] }

ParInit ==
    /\ entries = <<>>
    /\ path_prefix = Str("/api")
    /\ paths = EmptyDict
    /\ part_of = <<>>
    /\ part_paths = [k \in 1..NumParts |-> EmptyDict]
    /\ merged = Unset
    /\ merge_pos = 0
    /\ PathIdle /\ BodyIdle

\* The log's next entry goes to worker k: the sequential run (index 0) and worker
\* k's run each take one iteration of the loop on it.
ParProcessEntry(entry, k) ==
    /\ merge_pos = 0
    /\ Len(entries) < MaxParEntries
    /\ entries' = Append(entries, entry)
    /\ part_of' = Append(part_of, k)
    /\ \E stepped \in { [j \in {0, k} |-> ConvertStep(IF j = 0 THEN paths ELSE part_paths[j],
                                                       entry, path_prefix)] } :
          /\ paths' = stepped[0]
          /\ part_paths' = [part_paths EXCEPT ![k] = stepped[k]]
    /\ UNCHANGED <<path_prefix, merged, merge_pos, pathVars, bodyVars>>

\* The fold starts from the first worker's document.
MergeFirst ==
    /\ merge_pos = 0
    /\ merged' = OpenapiSpec(path_prefix, part_paths[1])
    /\ merge_pos' = 1
    /\ UNCHANGED <<convVars, part_of, part_paths, pathVars, bodyVars>>

\* merged = merge_openapi_specs(merged, the next worker's document)
MergeFollowing ==
    /\ merge_pos >= 1 /\ merge_pos < NumParts
    /\ merged' = merge_openapi_specs(merged, OpenapiSpec(path_prefix, part_paths[merge_pos + 1]))
    /\ merge_pos' = merge_pos + 1
    /\ UNCHANGED <<convVars, part_of, part_paths, pathVars, bodyVars>>

ParNext ==
    \/ \E entry \in ParEntryPool, k \in 1..NumParts : ParProcessEntry(entry, k)
    \/ MergeFirst
    \/ MergeFollowing

SpecPar == ParInit /\ [][ParNext]_vars

(***************************************************************************)
(* Claims about the assembler                                              *)
(***************************************************************************)
\* What the loop body derives from an entry: its parsed URL, its key (normalized path,
\* lower-cased method), its Operation, and whether it is skipped.
EntryUrl(entry) == urlparse(Get(Get(entry, "request", EmptyDict), "url", ""))
EntryPath(entry) == standardize_path(EntryUrl(entry).path)
EntryMethod(entry) == Lower(Get(Get(entry, "request", EmptyDict), "method", "GET"))
EntryKey(entry) == <<EntryPath(entry).path, EntryMethod(entry)>>
EntryOperation(entry) ==
    BuildOperation(Get(entry, "request", EmptyDict), Get(entry, "response", EmptyDict),
                   EntryUrl(entry), EntryPath(entry).path, EntryPath(entry).param_mapping,
                   EntryMethod(entry))
Skipped(entry, prefix) ==
    SchemeSkipped(EntryUrl(entry)) \/ PrefixSkipped(prefix, EntryUrl(entry).path)

\* The key, the Operation and the skipping of each entry a log may hold, tabulated.
UrlOf == [entry \in EntryPool \cup ParEntryPool |-> EntryUrl(entry)]
KeyOf == [entry \in EntryPool \cup ParEntryPool |-> EntryKey(entry)]
OperationOf == [entry \in EntryPool \cup ParEntryPool |-> EntryOperation(entry)]
SkippedUnder ==
    [prefix \in Prefixes |-> [entry \in EntryPool \cup ParEntryPool |-> Skipped(entry, prefix)]]
Kept(i) == ~SkippedUnder[path_prefix][entries[i]]

\* The entries of the log that were not skipped and normalize to a key.
KeyIdx(key) == {i \in 1..Len(entries) : Kept(i) /\ KeyOf[entries[i]] = key}
Latest(idx) == CHOOSE i \in idx : \A h \in idx : h <= i

\* C1: every (normalized path, lower-cased method) key of paths holds the Operation
\* derived from the last entry in log order that was not skipped and has that key,
\* whole and with nothing of an earlier entry; and every such entry's key is there.
C1_LastEntryWins ==
    /\ \A path \in DOMAIN paths : \A method \in DOMAIN paths[path] :
          LET idx == KeyIdx(<<path, method>>)
          IN  /\ idx # {}
              /\ paths[path][method] = OperationOf[entries[Latest(idx)]]
    /\ \A i \in 1..Len(entries) :
          Kept(i) =>
              /\ KeyOf[entries[i]][1] \in DOMAIN paths
              /\ KeyOf[entries[i]][2] \in DOMAIN paths[KeyOf[entries[i]][1]]

\* Two entries of one key, the earlier with a query parameter the later has not: the
\* key holds the later one's Operation.
C1_Witness ==
    \E i, j \in 1..Len(entries) :
        /\ i < j
        /\ Kept(i) /\ Kept(j)
        /\ KeyOf[entries[i]] = KeyOf[entries[j]]
        /\ KeyIdx(KeyOf[entries[j]]) = {i, j}
        /\ Len(OperationOf[entries[i]].parameters) > Len(OperationOf[entries[j]].parameters)
        /\ paths[KeyOf[entries[j]][1]][KeyOf[entries[j]][2]] = OperationOf[entries[j]]

\* The entries the specification skips: a scheme other than exactly http or https,
\* or a raw path that does not start with the configured prefix.
SpecSkips(entry, prefix) ==
    \/ UrlOf[entry].scheme \notin {"http", "https"}
    \/ prefix # None /\ ~StartsWith(UrlOf[entry].path, prefix.v)

\* C5: an entry whose scheme is not exactly http or https, or whose raw path does not
\* start with the configured prefix, leaves the document's paths as they were.
C5_SkippedEntryChangesNothing ==
    [][(Len(entries') = Len(entries) + 1 /\ SpecSkips(entries'[Len(entries')], path_prefix))
          => paths' = paths]_vars

\* The names of the "{...}" segments of a template.
Placeholders(path) ==
    LET segs == Split(path, "/")
    IN  {SubSeq(segs[i], 2, Len(segs[i]) - 1) :
            i \in {n \in 1..Len(segs) : Len(segs[n]) >= 2 /\ Char(segs[n], 1) = "{"
                                        /\ Char(segs[n], Len(segs[n])) = "}"}}
\* The path-kind parameters of an Operation.
PathParams(operation) ==
    SelectSeq(Get(operation, "parameters", <<>>), LAMBDA prm : prm["in"] = "path")

\* C10: the path-kind parameters of every stored Operation are named exactly as the
\* placeholders of its template, one parameter for each placeholder.
C10_EveryPlaceholderDeclared ==
    \A path \in DOMAIN paths : \A method \in DOMAIN paths[path] :
        LET params == PathParams(paths[path][method])
        IN  /\ {params[i].name : i \in 1..Len(params)} = Placeholders(path)
            /\ Len(params) = Cardinality(Placeholders(path))

(***************************************************************************)
(* Claims about partitioned assembly                                       *)
(***************************************************************************)
\* For every key, the entries of an earlier-merged worker all come before the entries
\* of a later-merged worker in the log.
OrderPreserved ==
    \A i, j \in 1..Len(entries) :
        (KeyOf[entries[i]] = KeyOf[entries[j]] /\ part_of[i] < part_of[j]) => i < j

\* C9: when the split keeps each key's order, folding the workers' documents left to
\* right gives the paths of the sequential run over the whole log.
C9_PartitionedEqualsSequential ==
    (merge_pos = NumParts /\ OrderPreserved) => merged.paths = paths

\* A fold finished over a split that put two different entries of one key on two
\* workers, in order.
C9_Witness ==
    /\ merge_pos = NumParts /\ OrderPreserved
    /\ \E i, j \in 1..Len(entries) :
          /\ i < j /\ part_of[i] < part_of[j]
          /\ Kept(i)
          /\ KeyOf[entries[i]] = KeyOf[entries[j]]
          /\ OperationOf[entries[i]] # OperationOf[entries[j]]
    /\ merged.paths = paths

====
